---- MODULE Spec2Model ----
(***************************************************************************)
(* Model of scripts/update_yeongeum720.mjs: the update run (load the       *)
(* persisted draws, fetch and extract, merge by round, write the history,  *)
(* rebuild and write the frequency table, recommend) and the pure          *)
(* functions it is built from.  The source file holds three revisions of   *)
(* the script one after the other; the run modelled here is the revision   *)
(* of lines 385-784, the helpers of the other two revisions are modelled   *)
(* where a property is stated about them, under a distinct name.           *)
(***************************************************************************)
EXTENDS Integers, Sequences, FiniteSets, TLC

VARIABLES
    drawsFile,   \* data/yeongeum720_draws.json on disk
    freqFile,    \* data/yeongeum720_freq.json on disk
    pc,          \* position of main()
    args,        \* parseArgs(process.argv)
    draws,       \* main's local `draws`
    resp,        \* history: how this run's fetch ended, and whether the page
                 \* held a primary match
    fetched,     \* main's local `fetched`
    freq,        \* main's local `freq`
    err,         \* the error main() rejected with, "none" while it has not
    out,         \* the recommendations handed to the console
    drawsFile0,  \* history: drawsFile when the current run started
    freqFile0,   \* history: freqFile when the current run started
    everMerged,  \* history: some run has written the merged history
    firstMatches, \* fetchDrawsFromPrimary's `firstMatches`
    bonusMatches, \* fetchDrawsFromPrimary's `bonusMatches`
    bCursor,     \* fetchDrawsFromPrimary's bonus cursor `b`
    pushed,      \* fetchDrawsFromPrimary's local `draws`, the records pushed
    attached,    \* history: for each record pushed by the scan, the place in
                 \* bonusMatches of the bonus it was given, 0 for bonus = null
    reordered,   \* a reordering of `draws` handed to buildFreq a second time
    refreq       \* the table buildFreq returns for `reordered`

\* the variables of the update run
runVars == <<drawsFile, freqFile, pc, args, draws, resp, fetched, freq, err, out,
             drawsFile0, freqFile0, everMerged>>

\* the variables of the bonus scan inside fetchDrawsFromPrimary
scanVars == <<firstMatches, bonusMatches, bCursor, pushed, attached>>

\* the variables of the second fold
refoldVars == <<reordered, refreq>>

vars == <<runVars, scanVars, refoldVars>>

(***************************************************************************)
(* Bounds of the model.                                                    *)
(***************************************************************************)
MaxRound   == 2   \* rounds are 1..MaxRound
MaxMatches == 2   \* primary matches found in one fetched page
MaxInitLen == 1   \* records in a duplicate-free history file before the first run
MaxHist    == 3   \* records in a history handed to buildFreq on its own
MaxCycle   == 29  \* --cycle ranges over -1..MaxCycle

(***************************************************************************)
(* Draw records.  A record carries what the program reads afterwards:      *)
(* round, first.group, first.digits and bonus.  bonus = null is            *)
(* [has |-> FALSE].                                                        *)
(***************************************************************************)
NoBonus == [has |-> FALSE, digits |-> <<>>]

Bonus(ds) == [has |-> TRUE, digits |-> ds]

Draw(r, g, ds, b) == [round |-> r, first |-> [group |-> g, digits |-> ds], bonus |-> b]

Rounds == 1..MaxRound

\* what a page can say about one round
Payloads ==
    { [group |-> 4, digits |-> <<6, 3, 9, 5, 6, 6>>, bonus |-> Bonus(<<6, 1, 9, 1, 3, 6>>)],
      [group |-> 3, digits |-> <<1, 0, 0, 0, 0, 0>>, bonus |-> NoBonus] }

\* further payloads for histories handed to buildFreq on its own
MorePayloads ==
    { [group |-> 3, digits |-> <<2, 9, 9, 9, 9, 9>>, bonus |-> NoBonus],
      [group |-> 1, digits |-> <<6, 0, 0, 0, 0, 0>>, bonus |-> Bonus(<<6, 1, 0, 0, 0, 9>>)] }

DrawsOf(ps) == { Draw(r, p.group, p.digits, p.bonus) : r \in Rounds, p \in ps }

SeqsUpTo(S, n) == UNION { [1..k -> S] : k \in 0..n }

RoundsOf(s) == { s[i].round : i \in 1..Len(s) }

NoDupRounds(s) == \A i, j \in 1..Len(s) : s[i].round = s[j].round => i = j

\* the last record of s with round r
LastOf(s, r) == s[CHOOSE i \in 1..Len(s) :
                    /\ s[i].round = r
                    /\ \A j \in 1..Len(s) : s[j].round = r => j <= i]

(***************************************************************************)
(* Map keyed by round, as a sequence of values in insertion order.         *)
(***************************************************************************)
\* a set() that never overwrites: every call adds an entry
MapSetAlwaysAppend(m, d) == Append(m, d)

\* Map.prototype.set(d.round, d): overwrite in place, or append a new key
MapSet(m, d) ==
    IF \E i \in 1..Len(m) : m[i].round = d.round
    THEN [i \in 1..Len(m) |-> IF m[i].round = d.round THEN d ELSE m[i]]
    ELSE Append(m, d)

RECURSIVE MapSetAll(_, _)
\* for (const d of s) map.set(d.round, d)
MapSetAll(m, s) ==
    IF s = <<>> THEN m ELSE MapSetAll(MapSet(m, Head(s)), Tail(s))

\* x placed behind every element whose round is not greater (a stable insert)
InsertByRound(x, s) ==
    LET k == Cardinality({ i \in 1..Len(s) : s[i].round <= x.round })
    IN  SubSeq(s, 1, k) \o <<x>> \o SubSeq(s, k + 1, Len(s))

RECURSIVE SortByRound(_)
\* .sort((a, b) => a.round - b.round), a stable sort
SortByRound(s) ==
    IF s = <<>> THEN <<>>
    ELSE InsertByRound(s[Len(s)], SortByRound(SubSeq(s, 1, Len(s) - 1)))

(***************************************************************************)
(* Count objects.  A JavaScript object with integer-like keys is a         *)
(* function whose DOMAIN is the set of keys it holds; Object.keys lists    *)
(* such keys in ascending numeric order.                                   *)
(***************************************************************************)
Last5TopLen == 20

NullRound == -1   \* rounds.min / rounds.max of an empty history (null)

\* an object created without its keys
makeNoDigitCounts == [k \in {} |-> 0]

makeEmptyDigitCounts == [d \in 0..9 |-> 0]

makeEmptyGroupCounts == [g \in 1..5 |-> 0]

\* an inc that forgets the count it finds: obj[k] = 1
incFromZero(obj, k) ==
    IF k \in DOMAIN obj THEN [obj EXCEPT ![k] = 1] ELSE obj @@ (k :> 1)

\* obj[k] = (obj[k] ?? 0) + 1
inc(obj, k) ==
    IF k \in DOMAIN obj THEN [obj EXCEPT ![k] = @ + 1] ELSE obj @@ (k :> 1)

RECURSIVE AscSeq(_)
AscSeq(S) ==
    IF S = {} THEN <<>>
    ELSE LET m == CHOOSE x \in S : \A y \in S : x <= y
         IN  <<m>> \o AscSeq(S \ {m})

ObjectKeys(obj) == AscSeq(DOMAIN obj)

\* a comparator that breaks ties by descending key
RankCmpTieDescending(c, a, b) == IF c[b] # c[a] THEN c[b] - c[a] ELSE b - a

\* the comparator of rankCounts: (a, b) => db !== da ? db - da : Number(a) - Number(b)
RankCmp(c, a, b) == IF c[b] # c[a] THEN c[b] - c[a] ELSE a - b

\* x placed behind every element it does not precede (a stable insert)
InsertByRank(c, x, s) ==
    LET k == Cardinality({ i \in 1..Len(s) : RankCmp(c, x, s[i]) >= 0 })
    IN  SubSeq(s, 1, k) \o <<x>> \o SubSeq(s, k + 1, Len(s))

RECURSIVE SortByRank(_, _)
\* keys.sort(comparator)
SortByRank(c, keys) ==
    IF keys = <<>> THEN <<>>
    ELSE InsertByRank(c, keys[Len(keys)], SortByRank(c, SubSeq(keys, 1, Len(keys) - 1)))

rankCounts(countsObj) ==
    LET keys == SortByRank(countsObj, ObjectKeys(countsObj))
    IN  [i \in 1..Len(keys) |-> [digit |-> keys[i], count |-> countsObj[keys[i]]]]

\* the first revision's ranking: the sorted keys alone
rankKeysByCount(countObj) == SortByRank(countObj, ObjectKeys(countObj))

(***************************************************************************)
(* buildFreq: one fold over the history, then the rankings.                *)
(***************************************************************************)
RECURSIVE IncAll(_, _)
\* digits.forEach((digit) => inc(overallCounts, String(digit)))
IncAll(obj, ds) ==
    IF ds = <<>> THEN obj ELSE IncAll(inc(obj, Head(ds)), Tail(ds))

\* digits.forEach((digit, idx) => inc(posCounts[idx], String(digit)))
IncEach(posCounts, ds) ==
    [idx \in 1..Len(posCounts) |->
        IF idx <= Len(ds) THEN inc(posCounts[idx], ds[idx]) ELSE posCounts[idx]]

\* last5Map.set(last5, (last5Map.get(last5) || 0) + 1), entries in insertion order
Last5Set(m, last5) ==
    IF \E i \in 1..Len(m) : m[i].last5 = last5
    THEN [i \in 1..Len(m) |->
            IF m[i].last5 = last5 THEN [m[i] EXCEPT !.count = @ + 1] ELSE m[i]]
    ELSE Append(m, [last5 |-> last5, count |-> 1])

FoldInit ==
    [groupCounts        |-> makeEmptyGroupCounts,
     posCounts          |-> [i \in 1..6 |-> makeEmptyDigitCounts],
     overallCounts      |-> makeEmptyDigitCounts,
     bonusPosCounts     |-> [i \in 1..6 |-> makeEmptyDigitCounts],
     bonusOverallCounts |-> makeEmptyDigitCounts,
     last5Map           |-> <<>>]

\* the body of `for (const d of draws)`
FoldStep(acc, d) ==
    [groupCounts        |-> inc(acc.groupCounts, d.first.group),
     posCounts          |-> IncEach(acc.posCounts, d.first.digits),
     overallCounts      |-> IncAll(acc.overallCounts, d.first.digits),
     bonusPosCounts     |-> IF d.bonus.has
                            THEN IncEach(acc.bonusPosCounts, d.bonus.digits)
                            ELSE acc.bonusPosCounts,
     bonusOverallCounts |-> IF d.bonus.has
                            THEN IncAll(acc.bonusOverallCounts, d.bonus.digits)
                            ELSE acc.bonusOverallCounts,
     last5Map           |-> Last5Set(acc.last5Map, Tail(d.first.digits))]

RECURSIVE Fold(_, _)
Fold(acc, ds) ==
    IF ds = <<>> THEN acc ELSE Fold(FoldStep(acc, Head(ds)), Tail(ds))

MinRound(ds) == CHOOSE r \in RoundsOf(ds) : \A q \in RoundsOf(ds) : r <= q

MaxRoundOf(ds) == CHOOSE r \in RoundsOf(ds) : \A q \in RoundsOf(ds) : r >= q

\* x placed behind every entry whose count is not smaller (a stable insert)
InsertByCount(x, s) ==
    LET k == Cardinality({ i \in 1..Len(s) : s[i].count >= x.count })
    IN  SubSeq(s, 1, k) \o <<x>> \o SubSeq(s, k + 1, Len(s))

RECURSIVE SortByCount(_)
\* [...last5Map.entries()].sort((a, b) => b[1] - a[1]), a stable sort
SortByCount(s) ==
    IF s = <<>> THEN <<>>
    ELSE InsertByCount(s[Len(s)], SortByCount(SubSeq(s, 1, Len(s) - 1)))

\* .slice(0, 20)
Slice0(s, n) == SubSeq(s, 1, IF Len(s) < n THEN Len(s) ELSE n)

buildFreq(ds) ==
    LET acc == Fold(FoldInit, ds)
    IN  [rounds    |-> IF Len(ds) # 0
                       THEN [min |-> MinRound(ds), max |-> MaxRoundOf(ds), count |-> Len(ds)]
                       ELSE [min |-> NullRound, max |-> NullRound, count |-> 0],
         group     |-> [counts |-> acc.groupCounts, ranked |-> rankCounts(acc.groupCounts)],
         positions |-> [i \in 1..6 |->
                          [counts |-> acc.posCounts[i], ranked |-> rankCounts(acc.posCounts[i])]],
         overall   |-> [counts |-> acc.overallCounts, ranked |-> rankCounts(acc.overallCounts)],
         bonus     |-> [positions |-> [i \in 1..6 |->
                                         [counts |-> acc.bonusPosCounts[i],
                                          ranked |-> rankCounts(acc.bonusPosCounts[i])]],
                        overall   |-> [counts |-> acc.bonusOverallCounts,
                                       ranked |-> rankCounts(acc.bonusOverallCounts)]],
         third     |-> [last5Top |-> Slice0(SortByCount(acc.last5Map), Last5TopLen)]]

(***************************************************************************)
(* The recommendation of lines 661-695.                                    *)
(***************************************************************************)
Undefined == -1   \* the value of an array read outside 0..length-1

\* JavaScript's a % b for integers, b > 0: the sign follows the dividend
JsRem(a, b) == IF a >= 0 THEN a % b ELSE 0 - ((0 - a) % b)

\* a pickIndex that takes the top rank in every tier
pickIndexTopOnly(tier, pos, idx, len) == 0

\* arr[i], i counted from 0
At(arr, i) == IF i \in 0..(Len(arr) - 1) THEN arr[i + 1] ELSE Undefined

Min2(a, b) == IF a < b THEN a ELSE b

pickIndex(tier, pos, idx, len) ==
    IF len <= 1 THEN 0
    ELSE LET span == IF tier = "top" THEN Min2(1, len)
                     ELSE IF tier = "topmix" THEN Min2(3, len)
                     ELSE IF tier = "mix" THEN Min2(6, len)
                     ELSE len
             tailBias == IF pos >= 4 THEN 0 ELSE 1
         IN  JsRem(idx + pos * 2 + tailBias, span)

Thrown(e) == [ok |-> FALSE, error |-> e, tickets |-> <<>>]

Returned(ts) == [ok |-> TRUE, error |-> "none", tickets |-> ts]

recommendFromFreq(fr, n, cycle) ==
    IF fr.rounds.count = 0 THEN Thrown("NoData")
    ELSE LET groupRank == [i \in 1..Len(fr.group.ranked) |-> fr.group.ranked[i].digit]
             posRank == [p \in 1..Len(fr.positions) |->
                           [i \in 1..Len(fr.positions[p].ranked) |->
                               fr.positions[p].ranked[i].digit]]
             tier == IF n = 1 THEN "top" ELSE IF n = 5 THEN "topmix" ELSE "mix"
         IN  Returned([k \in 1..n |->
                 LET idx == cycle + (k - 1)
                 IN  [group  |-> At(groupRank, JsRem(idx, Len(groupRank))),
                      digits |-> [p \in 1..6 |->
                                    At(posRank[p],
                                       pickIndex(tier, p, idx, Len(posRank[p])))]]])

(***************************************************************************)
(* Files, JSON and the fetch.                                              *)
(***************************************************************************)
\* DRAWS_PATH: absent, text JSON.parse rejects, JSON of a value that is no
\* array and cannot be iterated (an object, as the main of lines 1144-1153
\* writes it to the same path, null, a number), or a JSON array of records
AbsentFile == [kind |-> "absent", recs |-> <<>>]

CorruptFile == [kind |-> "corrupt", recs |-> <<>>]

ObjectFile == [kind |-> "object", recs |-> <<>>]

ListFile(s) == [kind |-> "list", recs |-> s]

\* a parsed value: an array of records, or a value `for ... of` cannot iterate
ArrayVal(s) == [array |-> TRUE, recs |-> s]

ObjectVal == [array |-> FALSE, recs |-> <<>>]

\* JSON.stringify(draws, null, 2) of an array
JsonStringify(v) == ListFile(v.recs)

safeJsonParse(s, fallback) ==
    IF s.kind = "list" THEN ArrayVal(s.recs)
    ELSE IF s.kind = "object" THEN ObjectVal
    ELSE fallback

EmptyTable == buildFreq(<<>>)

\* `freq` before buildFreq has run, and the content of a file that is absent
NoTable == [none |-> TRUE]

NoFreqFile == [kind |-> "absent", val |-> NoTable]

FreqJson(f) == [kind |-> "json", val |-> f]

\* what the fetch of PRIMARY_SOURCE_URL brings: a rejected fetch, a response
\* that is not ok, or a page with its primary matches in textual order, each
\* with the bonus the scan attached to it
NoResp == [kind |-> "none", hasMatches |-> FALSE]

Summary(r) == [kind |-> r.kind, hasMatches |-> Len(r.matches) # 0]

Responses ==
    { [kind |-> "rejected", matches |-> <<>>], [kind |-> "notOk", matches |-> <<>>] }
    \cup { [kind |-> "ok", matches |-> m] : m \in SeqsUpTo(DrawsOf(Payloads), MaxMatches) }

\* an extraction without the zero-match check
fetchDrawsUnchecked(r) ==
    IF r.kind = "rejected" THEN Thrown("Transport") @@ [draws |-> <<>>]
    ELSE IF r.kind # "ok" THEN Thrown("Http") @@ [draws |-> <<>>]
    ELSE Returned(<<>>) @@ [draws |-> SortByRound(MapSetAll(<<>>, r.matches))]

fetchDrawsFromPrimary(r) ==
    IF r.kind = "rejected" THEN Thrown("Transport") @@ [draws |-> <<>>]
    ELSE IF r.kind # "ok" THEN Thrown("Http") @@ [draws |-> <<>>]
    ELSE IF Len(r.matches) = 0 THEN Thrown("NoMatches") @@ [draws |-> <<>>]
    ELSE Returned(<<>>) @@ [draws |-> SortByRound(MapSetAll(<<>>, r.matches))]

\* a merge that overlays the persisted records on the fetched ones
MergePersistedWins(prev, fresh) == SortByRound(MapSetAll(MapSetAll(<<>>, fresh), prev))

\* a merge that starts from the fetched records alone
MergeFetchedOnly(prev, fresh) == SortByRound(MapSetAll(<<>>, fresh))

\* lines 753-757: the persisted records, overlaid by the fetched ones, by round
MergeDraws(prev, fresh) == SortByRound(MapSetAll(MapSetAll(<<>>, prev), fresh))

(***************************************************************************)
(* main(): one action per stretch between two awaits.                      *)
(***************************************************************************)
\* outside the bonus scan and the second fold their variables are at rest
NoScan ==
    firstMatches = <<>> /\ bonusMatches = <<>> /\ bCursor = 0 /\ pushed = <<>> /\ attached = <<>>

NoRefold == reordered = <<>> /\ refreq = NoTable

ArgSets ==
    { [noUpdate |-> u, recommend |-> 0, cycle |-> 0] : u \in BOOLEAN }
    \cup { [noUpdate |-> u, recommend |-> 5, cycle |-> c] : u \in BOOLEAN, c \in {0, 1} }

\* the history file before the first run; a list not written by this program
\* may hold one round twice
InitFiles ==
    { AbsentFile, CorruptFile, ObjectFile }
    \cup { ListFile(s) : s \in SeqsUpTo(DrawsOf(Payloads), MaxInitLen) }
    \cup { ListFile(p) : p \in { q \in [1..2 -> DrawsOf(Payloads)] : q[1].round = q[2].round } }

Init ==
    /\ drawsFile \in InitFiles
    /\ freqFile = NoFreqFile
    /\ pc = "idle"
    /\ args = [noUpdate |-> FALSE, recommend |-> 0, cycle |-> 0]
    /\ draws = ArrayVal(<<>>)
    /\ resp = NoResp
    /\ fetched = <<>>
    /\ freq = NoTable
    /\ err = "none"
    /\ out = <<>>
    /\ drawsFile0 = drawsFile
    /\ freqFile0 = freqFile
    /\ everMerged = FALSE
    /\ NoScan
    /\ NoRefold

\* the process starts: parseArgs, mkdir, `let draws = []`
Start ==
    /\ pc \in {"idle", "done", "failed"}
    /\ \E a \in ArgSets : args' = a
    /\ pc' = "load"
    /\ draws' = ArrayVal(<<>>)
    /\ resp' = NoResp
    /\ fetched' = <<>>
    /\ freq' = NoTable
    /\ err' = "none"
    /\ out' = <<>>
    /\ drawsFile0' = drawsFile
    /\ freqFile0' = freqFile
    /\ UNCHANGED <<drawsFile, freqFile, everMerged, scanVars, refoldVars>>

\* lines 743-747: the persisted draws, when the file exists
Load ==
    /\ pc = "load"
    /\ draws' = IF drawsFile.kind = "absent" THEN draws
                ELSE safeJsonParse(drawsFile, ArrayVal(<<>>))
    /\ pc' = IF args.noUpdate THEN "freq" ELSE "fetch"
    /\ UNCHANGED <<drawsFile, freqFile, args, resp, fetched, freq, err, out,
                   drawsFile0, freqFile0, everMerged, scanVars, refoldVars>>

\* line 751: the fetch and the extraction; a throw rejects main()
Fetch ==
    /\ pc = "fetch"
    /\ \E r \in Responses :
         /\ resp' = Summary(r)
         /\ LET res == fetchDrawsFromPrimary(r)
            IN  IF res.ok
                THEN /\ fetched' = res.draws
                     /\ pc' = "merge"
                     /\ err' = err
                ELSE /\ fetched' = fetched
                     /\ pc' = "failed"
                     /\ err' = res.error
    /\ UNCHANGED <<drawsFile, freqFile, args, draws, freq, out,
                   drawsFile0, freqFile0, everMerged, scanVars, refoldVars>>

\* lines 753-758: merge by round, sort, write the history
MergeAndWrite ==
    /\ pc = "merge"
    /\ IF draws.array
       THEN /\ draws' = ArrayVal(MergeDraws(draws.recs, fetched))
            /\ drawsFile' = JsonStringify(draws')
            /\ everMerged' = TRUE
            /\ pc' = "freq"
            /\ err' = err
       ELSE \* for (const d of draws): draws is not iterable
            /\ pc' = "failed"
            /\ err' = "NotIterable"
            /\ UNCHANGED <<draws, drawsFile, everMerged>>
    /\ UNCHANGED <<freqFile, args, resp, fetched, freq, out, drawsFile0, freqFile0,
                   scanVars, refoldVars>>

\* a run that builds the table without writing it
BuildFreqOnly ==
    /\ pc = "freq"
    /\ IF draws.array
       THEN /\ freq' = buildFreq(draws.recs)
            /\ pc' = IF args.recommend > 0 THEN "recommend" ELSE "done"
            /\ err' = err
       ELSE /\ pc' = "failed"
            /\ err' = "NotIterable"
            /\ UNCHANGED freq
    /\ UNCHANGED <<drawsFile, freqFile, args, draws, resp, fetched, out,
                   drawsFile0, freqFile0, everMerged, scanVars, refoldVars>>

\* lines 762-763: rebuild the frequency table and write it
BuildAndWriteFreq ==
    /\ pc = "freq"
    /\ IF draws.array
       THEN /\ freq' = buildFreq(draws.recs)
            /\ freqFile' = FreqJson(freq')
            /\ pc' = IF args.recommend > 0 THEN "recommend" ELSE "done"
            /\ err' = err
       ELSE \* for (const d of draws): draws is not iterable
            /\ pc' = "failed"
            /\ err' = "NotIterable"
            /\ UNCHANGED <<freq, freqFile>>
    /\ UNCHANGED <<drawsFile, args, draws, resp, fetched, out,
                   drawsFile0, freqFile0, everMerged, scanVars, refoldVars>>

\* lines 766-778: the three recommendations; a throw rejects main()
Recommend ==
    /\ pc = "recommend"
    /\ LET cycle == args.cycle
           rec1  == recommendFromFreq(freq, 1, cycle)
           rec5  == recommendFromFreq(freq, 5, cycle)
           rec10 == recommendFromFreq(freq, 10, cycle)
       IN  IF rec1.ok /\ rec5.ok /\ rec10.ok
           THEN /\ out' = <<rec1.tickets, rec5.tickets, rec10.tickets>>
                /\ pc' = "done"
                /\ err' = err
           ELSE /\ out' = out
                /\ pc' = "failed"
                /\ err' = (IF ~rec1.ok THEN rec1.error
                           ELSE IF ~rec5.ok THEN rec5.error ELSE rec10.error)
    /\ UNCHANGED <<drawsFile, freqFile, args, draws, resp, fetched, freq,
                   drawsFile0, freqFile0, everMerged, scanVars, refoldVars>>

Next == Start \/ Load \/ Fetch \/ MergeAndWrite \/ BuildAndWriteFreq \/ Recommend

Spec == Init /\ [][Next]_vars

(***************************************************************************)
(* Properties of the update run (Spec).                                    *)
(***************************************************************************)
\* the history the current run loaded
Prior == IF drawsFile0.kind = "list" THEN drawsFile0.recs ELSE <<>>

\* the current run has merged and written the history
Merged == ~args.noUpdate /\ pc \in {"freq", "recommend", "done"}

\* the one record of round r in s is d
HoldsExactly(s, r, d) ==
    /\ \E i \in 1..Len(s) : s[i].round = r
    /\ \A i \in 1..Len(s) : s[i].round = r => s[i] = d

\* C1: once a run has merged and written the history, the persisted history
\* is a list in which no two records share a round, whatever the earlier
\* file and the fetched page held.
C1_RoundUnique ==
    everMerged => drawsFile.kind = "list" /\ NoDupRounds(drawsFile.recs)

\* a run has merged onto a history file that held one round twice
C1_Witness ==
    /\ everMerged
    /\ pc = "freq"
    /\ ~NoDupRounds(Prior)
    /\ NoDupRounds(drawsFile.recs)

\* C2: after the merge, every round held both by the loaded history and by
\* the fetched list is persisted with the fetched record.
C2_MergePrecedence ==
    Merged =>
        \A r \in RoundsOf(Prior) \cap RoundsOf(fetched) :
            HoldsExactly(drawsFile.recs, r, LastOf(fetched, r))

\* a merged round whose persisted record differed from the fetched one
C2_Witness ==
    /\ Merged
    /\ \E r \in RoundsOf(Prior) \cap RoundsOf(fetched) :
           LastOf(Prior, r) # LastOf(fetched, r)

\* C3: a run never removes a round from the persisted history, and after the
\* merge every loaded round the fetched list lacks is persisted with the
\* record the history held for it.
C3_MergeRetention ==
    /\ drawsFile0.kind = "list" =>
           drawsFile.kind = "list" /\ RoundsOf(Prior) \subseteq RoundsOf(drawsFile.recs)
    /\ Merged =>
           \A r \in RoundsOf(Prior) \ RoundsOf(fetched) :
               HoldsExactly(drawsFile.recs, r, LastOf(Prior, r))

\* a merge in which the fetched list lacked a loaded round
C3_Witness ==
    /\ Merged
    /\ RoundsOf(Prior) \ RoundsOf(fetched) # {}

\* C4: a run whose fetch was rejected or not ok, or whose page held no
\* primary match, has failed with that error and both files are as they
\* were when the run started.
C4_FailedFetchKeepsFiles ==
    (/\ ~args.noUpdate
     /\ pc \notin {"idle", "load", "fetch"}
     /\ (resp.kind # "ok" \/ ~resp.hasMatches))
    => /\ pc = "failed"
       /\ err \in {"Transport", "Http", "NoMatches"}
       /\ drawsFile = drawsFile0
       /\ freqFile = freqFile0

\* a zero-match run over a non-empty history with a frequency file
C4_Witness ==
    /\ pc = "failed"
    /\ err = "NoMatches"
    /\ drawsFile.kind = "list"
    /\ Len(drawsFile.recs) > 0
    /\ freqFile.kind = "json"

\* generation has been reached in the current run
GenerationReached ==
    \/ pc = "recommend"
    \/ args.recommend > 0 /\ pc = "done"
    \/ pc = "failed" /\ err = "NoData"

\* C6: when generation is reached, and so when it fails, the frequency file
\* holds the table rebuilt from this run's history, and after an update the
\* history file holds the merged history.
C6_PersistBeforeGenerate ==
    GenerationReached =>
        /\ draws.array
        /\ freq = buildFreq(draws.recs)
        /\ freqFile = FreqJson(freq)
        /\ ~args.noUpdate =>
               /\ draws.recs = MergeDraws(Prior, fetched)
               /\ drawsFile = JsonStringify(draws)

\* generation failed in a run that wrote the frequency file first
C6_Witness ==
    /\ pc = "failed"
    /\ err = "NoData"
    /\ freqFile0.kind = "absent"
    /\ freqFile = FreqJson(EmptyTable)

\* C7 (as claimed): whatever the history file holds, loading it yields a
\* usable history, so a run fails only for a failed fetch, an empty
\* extraction or an empty table, never because of the file.
C7_LoadNeverFatal ==
    pc = "failed" => err \in {"Transport", "Http", "NoMatches", "NoData"}

(***************************************************************************)
(* The bonus scan of fetchDrawsFromPrimary on its own (SpecScan): a page   *)
(* is a run of primary and bonus matches in textual order; the loop of     *)
(* lines 525-552 gives each primary match a bonus or null.                 *)
(***************************************************************************)
MaxItems == 3   \* matches, primary and bonus together, in one page

MaxDist == 200  \* the largest distance of an attached bonus (dist <= 200)

\* m[0].length of "303회 2026.02.19 1등 4 6 3 9 5 6 6 1" and of
\* "보너스 각조 6 1 9 1 3 6 10"
RawLen == [first |-> 34, bonus |-> 21]

\* characters between two neighbouring matches
Gaps == {0, MaxDist, MaxDist + 1}

Items ==
    { [kind |-> "first", gap |-> g, round |-> r] : g \in Gaps, r \in Rounds }
    \cup { [kind |-> "bonus", gap |-> g, round |-> 0] : g \in Gaps }

Pages == SeqsUpTo(Items, MaxItems)

RECURSIVE StartOf(_, _)
\* m.index of the k-th match of the page
StartOf(page, k) ==
    IF k = 1 THEN page[1].gap
    ELSE StartOf(page, k - 1) + RawLen[page[k - 1].kind] + page[k].gap

\* the matches of one pattern, in textual order
MatchesOf(page, kind) ==
    LET all == [k \in 1..Len(page) |->
                   [kind |-> page[k].kind, index |-> StartOf(page, k),
                    round |-> page[k].round, rawLen |-> RawLen[page[k].kind]]]
    IN  SelectSeq(all, LAMBDA m : m.kind = kind)

\* lines 499-507: [...text.matchAll(reFirst)].map(...)
FirstMatchesOf(page) ==
    LET ms == MatchesOf(page, "first")
    IN  [i \in 1..Len(ms) |->
            [index |-> ms[i].index, round |-> ms[i].round, group |-> 4,
             digits |-> <<6, 3, 9, 5, 6, 6>>, rawLen |-> ms[i].rawLen]]

\* lines 509-514: [...text.matchAll(reBonus)].map(...)
BonusMatchesOf(page) ==
    LET ms == MatchesOf(page, "bonus")
    IN  [i \in 1..Len(ms) |->
            [index |-> ms[i].index, digits |-> <<6, 1, 9, 1, 3, 6>>,
             rawLen |-> ms[i].rawLen]]

RECURSIVE SkipBefore(_, _, _)
\* while (b < bonusMatches.length && bonusMatches[b].index < f.index) b++
SkipBefore(bms, bb, fIndex) ==
    IF bb < Len(bms) /\ bms[bb + 1].index < fIndex
    THEN SkipBefore(bms, bb + 1, fIndex)
    ELSE bb

\* dist >= 0 && dist <= 200
Accepts(dist) == dist >= 0 /\ dist <= MaxDist

\* a scan that leaves the cursor on the bonus it has attached
NextCursorStays(bb, accepted) == bb

\* b += 1 when the candidate is accepted
NextCursor(bb, accepted) == IF accepted THEN bb + 1 ELSE bb

InitScan ==
    /\ pc = "matched"
    /\ \E page \in Pages :
         /\ firstMatches = FirstMatchesOf(page)
         /\ bonusMatches = BonusMatchesOf(page)
    /\ bCursor = 0
    /\ pushed = <<>>
    /\ attached = <<>>
    /\ draws = ArrayVal(<<>>)
    /\ freq = NoTable
    /\ drawsFile = AbsentFile
    /\ freqFile = NoFreqFile
    /\ args = [noUpdate |-> FALSE, recommend |-> 0, cycle |-> 0]
    /\ resp = NoResp
    /\ fetched = <<>>
    /\ err = "none"
    /\ out = <<>>
    /\ drawsFile0 = AbsentFile
    /\ freqFile0 = NoFreqFile
    /\ everMerged = FALSE
    /\ NoRefold

\* lines 516-524: no primary match throws; otherwise b = 0, draws = []
CheckMatches ==
    /\ pc = "matched"
    /\ IF Len(firstMatches) = 0
       THEN pc' = "failed" /\ err' = "NoMatches"
       ELSE pc' = "scan" /\ err' = err
    /\ bCursor' = 0
    /\ pushed' = <<>>
    /\ attached' = <<>>
    /\ UNCHANGED <<drawsFile, freqFile, args, draws, resp, fetched, freq, out,
                   drawsFile0, freqFile0, everMerged, firstMatches, bonusMatches,
                   refoldVars>>

\* lines 525-552: one pass of `for (const f of firstMatches)`
ScanStep ==
    /\ pc = "scan"
    /\ Len(pushed) < Len(firstMatches)
    /\ LET f == firstMatches[Len(pushed) + 1]
           bb == SkipBefore(bonusMatches, bCursor, f.index)
           has == bb < Len(bonusMatches)
           candidate == bonusMatches[bb + 1]
           fEnd == f.index + f.rawLen
           accepted == has /\ Accepts(candidate.index - fEnd)
           bonus == IF accepted THEN Bonus(candidate.digits) ELSE NoBonus
       IN  /\ bCursor' = NextCursor(bb, accepted)
           /\ pushed' = Append(pushed, Draw(f.round, f.group, f.digits, bonus))
           /\ attached' = Append(attached, IF accepted THEN bb + 1 ELSE 0)
    /\ UNCHANGED <<runVars, firstMatches, bonusMatches, refoldVars>>

\* lines 555-556: one record for each round, by ascending round
DedupeAndSort ==
    /\ pc = "scan"
    /\ Len(pushed) = Len(firstMatches)
    /\ fetched' = SortByRound(MapSetAll(<<>>, pushed))
    /\ pc' = "extracted"
    /\ UNCHANGED <<drawsFile, freqFile, args, draws, resp, freq, err, out,
                   drawsFile0, freqFile0, everMerged, scanVars, refoldVars>>

NextScan == CheckMatches \/ ScanStep \/ DedupeAndSort

SpecScan == InitScan /\ [][NextScan]_vars

\* the loop has started: `pushed` and `attached` describe the matches done
Scanning == pc \in {"scan", "extracted"}

\* from the end of the k-th primary match to the start of the j-th bonus match
DistOf(k, j) == bonusMatches[j].index - (firstMatches[k].index + firstMatches[k].rawLen)

\* C13 (as claimed): a record with an attached bonus comes from the nearest
\* primary match before that bonus: no other primary match starts between
\* the record's primary match and the bonus match.
C13_NearestPrecedingPrimary ==
    Scanning =>
        \A k \in 1..Len(attached) :
            attached[k] # 0 =>
                ~\E m \in 1..Len(firstMatches) :
                     /\ firstMatches[k].index < firstMatches[m].index
                     /\ firstMatches[m].index < bonusMatches[attached[k]].index

\* what holds of the records pushed so far
ScanInv ==
    Scanning =>
        /\ Len(pushed) = Len(attached)
        /\ Len(pushed) <= Len(firstMatches)
        /\ pc = "extracted" => Len(pushed) = Len(firstMatches)
        /\ bCursor \in 0..Len(bonusMatches)
        /\ \A k \in 1..Len(pushed) :
               /\ pushed[k].round = firstMatches[k].round
               /\ attached[k] = 0 => pushed[k].bonus = NoBonus
               /\ attached[k] # 0 =>
                      /\ attached[k] \in 1..bCursor
                      /\ pushed[k].bonus = Bonus(bonusMatches[attached[k]].digits)
                      /\ DistOf(k, attached[k]) >= 0
                      /\ DistOf(k, attached[k]) <= MaxDist
               /\ (~\E j \in 1..Len(bonusMatches) : Accepts(DistOf(k, j))) =>
                      attached[k] = 0
        /\ \A k, l \in 1..Len(attached) :
               (k # l /\ attached[k] # 0) => attached[k] # attached[l]

\* C14: the bonus cursor never moves back; every primary match done has one
\* pushed record; no bonus match is attached to two records; an attached
\* bonus starts at or after the end of its primary match and at most 200
\* characters after it; a primary match without such a bonus has a record
\* with bonus = null.
C14_BonusExclusive ==
    /\ []ScanInv
    /\ [][bCursor' >= bCursor]_vars

\* a finished scan in which one record got a bonus at the largest distance
\* and another got null although a bonus match follows its primary match
C14_Witness ==
    /\ pc = "extracted"
    /\ \E k \in 1..Len(attached) : attached[k] # 0 /\ DistOf(k, attached[k]) = MaxDist
    /\ \E k \in 1..Len(attached) :
           /\ attached[k] = 0
           /\ \E j \in 1..Len(bonusMatches) :
                  bonusMatches[j].index > firstMatches[k].index

(***************************************************************************)
(* buildFreq on its own (SpecFreq): a history is drawn, buildFreq folds    *)
(* and ranks it.  With --no-update the history comes from the file as it   *)
(* is, so it need not be sorted nor free of duplicates.                    *)
(***************************************************************************)
\* a history with one suffix more than the suffix list can hold
LongHistory ==
    [k \in 1..(Last5TopLen + 1) |->
        Draw(((k - 1) % MaxRound) + 1, 3, <<1, 0, 0, 0, k \div 10, k % 10>>, NoBonus)]

Histories == SeqsUpTo(DrawsOf(Payloads \cup MorePayloads), MaxHist) \cup {LongHistory}

InitFreq ==
    /\ pc = "fold"
    /\ draws \in { ArrayVal(h) : h \in Histories }
    /\ freq = NoTable
    /\ drawsFile = AbsentFile
    /\ freqFile = NoFreqFile
    /\ args = [noUpdate |-> TRUE, recommend |-> 0, cycle |-> 0]
    /\ resp = NoResp
    /\ fetched = <<>>
    /\ err = "none"
    /\ out = <<>>
    /\ drawsFile0 = AbsentFile
    /\ freqFile0 = NoFreqFile
    /\ everMerged = FALSE
    /\ NoScan
    /\ NoRefold

\* const freq = buildFreq(draws)
FoldHistory ==
    /\ pc = "fold"
    /\ freq' = buildFreq(draws.recs)
    /\ pc' = "ranked"
    /\ UNCHANGED <<drawsFile, freqFile, args, draws, resp, fetched, err, out,
                   drawsFile0, freqFile0, everMerged, scanVars, refoldVars>>

NextFreq == FoldHistory

SpecFreq == InitFreq /\ [][NextFreq]_vars

\* every key of K is the digit of exactly one entry of the ranked list rk
ExactlyOnce(rk, K) ==
    \A k \in K : Cardinality({ i \in 1..Len(rk) : rk[i].digit = k }) = 1

\* C8: the ranked list of the groups holds each of 1..5 exactly once, and the
\* ranked list of each primary and each bonus position holds each digit 0..9
\* exactly once, for every history, the empty one included.
C8_FreqComplete ==
    pc = "ranked" =>
        /\ ExactlyOnce(freq.group.ranked, 1..5)
        /\ \A p \in 1..6 :
               /\ ExactlyOnce(freq.positions[p].ranked, 0..9)
               /\ ExactlyOnce(freq.bonus.positions[p].ranked, 0..9)

\* a ranked table of a non-empty history: some digits were never seen
C8_Witness ==
    /\ pc = "ranked"
    /\ Len(draws.recs) > 0
    /\ \E i \in 1..Len(freq.positions[1].ranked) : freq.positions[1].ranked[i].count = 0
    /\ \E i \in 1..Len(freq.positions[1].ranked) : freq.positions[1].ranked[i].count > 0

\* the entries of rk follow descending count, ties by ascending key
Ranked(rk) ==
    \A i, j \in 1..Len(rk) :
        i < j => \/ rk[i].count > rk[j].count
                 \/ rk[i].count = rk[j].count /\ rk[i].digit < rk[j].digit

\* the same for a list of keys ranked over the count object c
RankedKeys(c, ks) ==
    \A i, j \in 1..Len(ks) :
        i < j => \/ c[ks[i]] > c[ks[j]]
                 \/ c[ks[i]] = c[ks[j]] /\ ks[i] < ks[j]

\* C9: every ranked list of a fixed-domain count map puts a higher count
\* first and equal counts in ascending key order; the history of one record
\* of group 3 ranks the groups 3, 1, 2, 4, 5.
C9_RankOrder ==
    pc = "ranked" =>
        /\ Ranked(freq.group.ranked)
        /\ RankedKeys(freq.group.counts, rankKeysByCount(freq.group.counts))
        /\ \A p \in 1..6 :
               /\ Ranked(freq.positions[p].ranked)
               /\ Ranked(freq.bonus.positions[p].ranked)
               /\ RankedKeys(freq.positions[p].counts,
                             rankKeysByCount(freq.positions[p].counts))
        /\ (Len(draws.recs) = 1 /\ draws.recs[1].first.group = 3) =>
               [i \in 1..5 |-> freq.group.ranked[i].digit] = <<3, 1, 2, 4, 5>>

\* the one-record history of group 3, ranked
C9_Witness ==
    /\ pc = "ranked"
    /\ Len(draws.recs) = 1
    /\ draws.recs[1].first.group = 3
    /\ freq.group.ranked[1] = [digit |-> 3, count |-> 1]

\* a five-digit suffix as a number: ascending order of the fixed-width keys
SuffixKey(s5) == s5[1] * 10000 + s5[2] * 1000 + s5[3] * 100 + s5[4] * 10 + s5[5]

\* how often the suffix s5 occurs in the history ds
SuffixCount(ds, s5) == Cardinality({ i \in 1..Len(ds) : Tail(ds[i].first.digits) = s5 })

\* entry a outranks entry b: a higher count, or the same count and a lower key
Outranks(a, b) ==
    \/ a.count > b.count
    \/ a.count = b.count /\ SuffixKey(a.last5) < SuffixKey(b.last5)

\* C10 (as claimed): the suffix list holds at most 20 entries, in descending
\* count with ties in ascending suffix order, and no suffix left out
\* outranks one that is listed.
C10_SuffixTopRanked ==
    pc = "ranked" =>
        LET top == freq.third.last5Top
        IN  /\ Len(top) <= Last5TopLen
            /\ \A i, j \in 1..Len(top) : i < j => Outranks(top[i], top[j])
            /\ \A k \in 1..Len(draws.recs) :
                   LET s5 == Tail(draws.recs[k].first.digits)
                       e  == [last5 |-> s5, count |-> SuffixCount(draws.recs, s5)]
                   IN  \/ \E i \in 1..Len(top) : top[i] = e
                       \/ \A i \in 1..Len(top) : Outranks(top[i], e)

RECURSIVE SumOver(_, _)
\* the sum of the counts c[k], k in K
SumOver(c, K) ==
    IF K = {} THEN 0
    ELSE LET k == CHOOSE x \in K : TRUE IN c[k] + SumOver(c, K \ {k})

\* the sum of the counts a count object holds
Total(c) == SumOver(c, DOMAIN c)

\* the sum of the counts of a list of suffix entries
TotalOf(entries) == SumOver([i \in 1..Len(entries) |-> entries[i].count], 1..Len(entries))

\* the records of ds that have a bonus
WithBonus(ds) == { i \in 1..Len(ds) : ds[i].bonus.has }

\* C17: the group counts sum to the number of records, the digit counts of
\* each primary position too, those of each bonus position to the number of
\* records with a bonus; the suffix counts of the fold sum to the number of
\* records, and so does the listed top while the suffixes are at most 20
\* (beyond 20 the list holds a part of them);
\* rounds.count is the number of records, with min <= max when it is not 0.
C17_CountConservation ==
    pc = "ranked" =>
        LET ds == draws.recs
            last5Map == Fold(FoldInit, ds).last5Map
        IN  /\ Total(freq.group.counts) = Len(ds)
            /\ \A p \in 1..6 :
                   /\ Total(freq.positions[p].counts) = Len(ds)
                   /\ Total(freq.bonus.positions[p].counts) = Cardinality(WithBonus(ds))
            /\ TotalOf(last5Map) = Len(ds)
            /\ TotalOf(freq.third.last5Top) <= Len(ds)
            /\ Len(last5Map) <= Last5TopLen => TotalOf(freq.third.last5Top) = Len(ds)
            /\ freq.rounds.count = Len(ds)
            /\ freq.rounds.count # 0 => freq.rounds.min <= freq.rounds.max

\* a table of three records, two of one group, two of one suffix, one
\* without a bonus, over two rounds
C17_Witness ==
    /\ pc = "ranked"
    /\ Len(draws.recs) = 3
    /\ \E g \in 1..5 : freq.group.counts[g] = 2
    /\ \E i \in 1..Len(freq.third.last5Top) : freq.third.last5Top[i].count = 2
    /\ Cardinality(WithBonus(draws.recs)) = 2
    /\ freq.rounds.min < freq.rounds.max

(***************************************************************************)
(* buildFreq twice (SpecRefold): a history is folded as it is, then again  *)
(* in another order of the same records.                                   *)
(***************************************************************************)
MaxRefold == 2   \* records in a history that is folded in two orders

\* the orders of the records of s
Reorderings(s) ==
    { [i \in 1..Len(s) |-> s[f[i]]] : f \in Permutations(1..Len(s)) }

InitRefold ==
    /\ pc = "fold"
    /\ draws \in { ArrayVal(h) :
                      h \in SeqsUpTo(DrawsOf(Payloads \cup MorePayloads), MaxRefold) }
    /\ freq = NoTable
    /\ drawsFile = AbsentFile
    /\ freqFile = NoFreqFile
    /\ args = [noUpdate |-> TRUE, recommend |-> 0, cycle |-> 0]
    /\ resp = NoResp
    /\ fetched = <<>>
    /\ err = "none"
    /\ out = <<>>
    /\ drawsFile0 = AbsentFile
    /\ freqFile0 = NoFreqFile
    /\ everMerged = FALSE
    /\ NoScan
    /\ NoRefold

\* buildFreq(reordered), for some order of the records of draws
Refold ==
    /\ pc = "ranked"
    /\ \E h \in Reorderings(draws.recs) :
         /\ reordered' = h
         /\ refreq' = buildFreq(h)
    /\ pc' = "refolded"
    /\ UNCHANGED <<drawsFile, freqFile, args, draws, resp, fetched, freq, err, out,
                   drawsFile0, freqFile0, everMerged, scanVars>>

NextRefold == FoldHistory \/ Refold

SpecRefold == InitRefold /\ [][NextRefold]_vars

\* C11 (as claimed): the table built from any order of the same records is
\* the table built from the history: the same group, position and bonus
\* counts, the same rankings, the same suffix list and the same round range.
C11_OrderIndependent ==
    pc = "refolded" => refreq = freq

\* all of the table but the suffix list is the same in every order
C11_CountsOrderIndependent ==
    pc = "refolded" =>
        [refreq EXCEPT !.third = freq.third] = freq

(***************************************************************************)
(* The generators of the other two revisions.                              *)
(***************************************************************************)
\* lines 185-245: the first revision's table holds the counts alone
buildFreqV1(ds) ==
    LET acc == Fold(FoldInit, ds)
    IN  [rounds             |-> Len(ds),
         max_round          |-> IF Len(ds) # 0 THEN MaxRoundOf(ds) ELSE NullRound,
         group_counts       |-> acc.groupCounts,
         digit_counts       |-> acc.posCounts,
         bonus_digit_counts |-> acc.bonusPosCounts,
         tail5_digit_counts |-> [i \in 1..5 |-> acc.posCounts[i + 1]]]

\* lines 262-288: the first revision ranks the counts itself and has no guard
recommendFromFreqV1(fr, n, cycle) ==
    LET groupRank == rankKeysByCount(fr.group_counts)
        digitRank == [p \in 1..6 |-> rankKeysByCount(fr.digit_counts[p])]
        tier == IF n = 1 THEN "top" ELSE IF n = 5 THEN "topmix" ELSE "mix"
    IN  Returned([k \in 1..n |->
            LET idx == cycle + (k - 1)
            IN  [group  |-> At(groupRank, JsRem(idx, Len(groupRank))),
                 digits |-> [p \in 1..6 |->
                               At(digitRank[p],
                                  pickIndex(tier, p, idx, Len(digitRank[p])))]]])

\* lines 1062-1073: g and o of the ten fixed patterns
patterns ==
    << [g |-> 0, o |-> <<0, 0, 0, 0, 0, 0>>],
       [g |-> 1, o |-> <<1, 0, 1, 0, 1, 0>>],
       [g |-> 2, o |-> <<0, 3, 1, 4, 2, 5>>],
       [g |-> 0, o |-> <<5, 5, 5, 5, 5, 5>>],
       [g |-> 3, o |-> <<6, 5, 6, 5, 6, 5>>],
       [g |-> 4, o |-> <<8, 7, 6, 8, 7, 6>>],
       [g |-> 1, o |-> <<0, 1, 2, 1, 0, 2>>],
       [g |-> 2, o |-> <<2, 6, 1, 7, 0, 8>>],
       [g |-> 0, o |-> <<4, 4, 4, 4, 2, 0>>],
       [g |-> 3, o |-> <<3, 7, 4, 8, 5, 9>>] >>

RECURSIVE GenSets(_, _, _)
\* lines 1077-1102: the sets after k passes of the loop; a set equal to an
\* earlier one in group and digits has its last digit moved once
GenSets(fr, seedRound, k) ==
    IF k = 0 THEN <<>>
    ELSE LET sets == GenSets(fr, seedRound, k - 1)
             i == k - 1
             groupRank == [j \in 1..Len(fr.group.ranked) |-> fr.group.ranked[j].digit]
             posRank == [p \in 1..6 |->
                           [j \in 1..Len(fr.positions[p].ranked) |->
                               fr.positions[p].ranked[j].digit]]
             pat == At(patterns, JsRem(i, Len(patterns)))
             base == JsRem(seedRound, 10)
             group == At(groupRank,
                         JsRem(pat.g + JsRem(seedRound, Len(groupRank)), Len(groupRank)))
             digits == [p \in 1..6 |-> At(posRank[p], JsRem(pat.o[p] + base + i, 10))]
             dup == \E j \in 1..Len(sets) :
                        sets[j].group = group /\ sets[j].digits = digits
             moved == IF dup
                      THEN [digits EXCEPT ![6] = At(posRank[6], JsRem(digits[6] + 1, 10))]
                      ELSE digits
         IN  Append(sets, [group |-> group, digits |-> moved])

\* lines 1056-1104, for a seedRound >= 0: the third revision has no guard
generateRecommendations(fr, howMany, seedRound) ==
    Returned(GenSets(fr, seedRound, howMany))

(***************************************************************************)
(* The generators on their own (SpecGen): a history, a count n and a cycle *)
(* are drawn; a generator is applied to the table of the history.          *)
(***************************************************************************)
InitGen ==
    /\ pc = "gen"
    /\ draws \in { ArrayVal(h) : h \in SeqsUpTo(DrawsOf(Payloads), MaxInitLen) }
    /\ args \in { [noUpdate |-> TRUE, recommend |-> n, cycle |-> c] :
                      n \in {1, 5, 10}, c \in -1..MaxCycle }
    /\ freq = NoTable
    /\ drawsFile = AbsentFile
    /\ freqFile = NoFreqFile
    /\ resp = NoResp
    /\ fetched = <<>>
    /\ err = "none"
    /\ out = <<>>
    /\ drawsFile0 = AbsentFile
    /\ freqFile0 = NoFreqFile
    /\ everMerged = FALSE
    /\ NoScan
    /\ NoRefold

\* the result of a generator call becomes the output, or the error
Generated(r, rev) ==
    /\ out' = r.tickets
    /\ err' = r.error
    /\ pc' = rev
    /\ UNCHANGED <<drawsFile, freqFile, args, draws, resp, fetched,
                   drawsFile0, freqFile0, everMerged, scanVars, refoldVars>>

\* recommendFromFreq of lines 262-288 on the table of lines 185-245
GenerateV1 ==
    /\ pc = "gen"
    /\ freq' = buildFreqV1(draws.recs)
    /\ Generated(recommendFromFreqV1(freq', args.recommend, args.cycle), "rev1")

\* recommendFromFreq of lines 672-695 on the table of lines 589-658
GenerateV2 ==
    /\ pc = "gen"
    /\ freq' = buildFreq(draws.recs)
    /\ Generated(recommendFromFreq(freq', args.recommend, args.cycle), "rev2")

\* generateRecommendations of lines 1056-1104, seeded with a round >= 0, on
\* the ranked lists of the history
GenerateV3 ==
    /\ pc = "gen"
    /\ args.cycle >= 0
    /\ freq' = buildFreq(draws.recs)
    /\ Generated(generateRecommendations(freq', args.recommend, args.cycle), "rev3")

NextGen == GenerateV1 \/ GenerateV2 \/ GenerateV3

SpecGen == InitGen /\ [][NextGen]_vars

\* C5 (as claimed): a generator invoked on the table of the empty history
\* fails with the no-data error and returns no ticket, for every n and cycle.
C5_EmptyHistoryRejected ==
    (pc \in {"rev1", "rev2", "rev3"} /\ Len(draws.recs) = 0) =>
        err = "NoData" /\ out = <<>>

\* the generator of lines 672-695 alone does reject the empty table
C5_GuardedRevision ==
    (pc = "rev2" /\ Len(draws.recs) = 0) => err = "NoData" /\ out = <<>>

\* the tickets of the generator of lines 672-695, for a history with a round
Rev2Batch == pc = "rev2" /\ Len(draws.recs) > 0

\* a ticket with a group in 1..5 and six digits in 0..9
InBounds(t) ==
    /\ t.group \in 1..5
    /\ Len(t.digits) = 6
    /\ \A p \in 1..6 : t.digits[p] \in 0..9

\* C12 (as claimed): for a table with at least one round, every n and every
\* integer cycle, negative ones included, recommendFromFreq returns n
\* tickets, each with a group in 1..5 and six digits in 0..9.
C12_GeneratorBounds ==
    Rev2Batch =>
        /\ Len(out) = args.recommend
        /\ \A k \in 1..Len(out) : InBounds(out[k])

\* the bounds do hold for every cycle that is not negative
C12_BoundsFromZero ==
    (Rev2Batch /\ args.cycle >= 0) =>
        /\ Len(out) = args.recommend
        /\ \A k \in 1..Len(out) : InBounds(out[k])

\* C15 (as claimed): for a table with at least one round and a cycle that is
\* not negative, the one ticket of n = 1 takes the top-ranked group and, at
\* each of the six positions, the top-ranked digit.
C15_TopBandForOne ==
    (Rev2Batch /\ args.recommend = 1 /\ args.cycle >= 0) =>
        /\ Len(out) = 1
        /\ out[1].group = freq.group.ranked[1].digit
        /\ \A p \in 1..6 : out[1].digits[p] = freq.positions[p].ranked[1].digit

\* the six digits of the ticket of n = 1 are the top-ranked ones
C15_TopDigitsForOne ==
    (Rev2Batch /\ args.recommend = 1 /\ args.cycle >= 0) =>
        /\ Len(out) = 1
        /\ \A p \in 1..6 : out[1].digits[p] = freq.positions[p].ranked[1].digit

\* C16: for a table with at least one round, n in {1, 5, 10} and a cycle that
\* is not negative, no two tickets of the batch of lines 672-695, and no two
\* of the batch of lines 1056-1104, have the same group and the same digits.
C16_BatchDistinct ==
    (pc \in {"rev2", "rev3"} /\ Len(draws.recs) > 0 /\ args.cycle >= 0) =>
        /\ Len(out) = args.recommend
        /\ \A i, j \in 1..Len(out) :
               i # j => ~(out[i].group = out[j].group /\ out[i].digits = out[j].digits)

\* a batch of ten from lines 672-695 in which two tickets share the group
\* and two tickets share the digits
C16_Witness ==
    /\ Rev2Batch
    /\ args.recommend = 10
    /\ args.cycle > 0
    /\ Len(out) = 10
    /\ \E i, j \in 1..10 : i # j /\ out[i].group = out[j].group
    /\ \E i, j \in 1..10 : i # j /\ out[i].digits = out[j].digits

====
